---- MODULE Spec2Model ----
(***************************************************************************)
(* Model of the passenger view's driver table                              *)
(* (frontend/src/components/UserView.tsx): the React state of the          *)
(* component, the queue of state updates React holds between two renders,  *)
(* the socket the effect sets up, and the active-driver count fetch.       *)
(*                                                                         *)
(* A socket handler runs to completion and only enqueues state updates     *)
(* (setDriverLocations, setIsLoading, setActiveDriversCount); React        *)
(* applies the queued updates, in order, when it next renders the          *)
(* component.  A render is the only moment at which the display reads the  *)
(* table.                                                                  *)
(***************************************************************************)
EXTENDS Integers, Sequences, FiniteSets, TLC

\* ------------------------------------------------------------------ bounds
\* Number of inputs (socket events, losses of the transport, timer ticks,
\* fetch outcomes, the unmount) the environment delivers in one run.  The transport opens
\* once at the start and once after each loss, so openings need no bound.
MaxEvents == 3

\* Driver ids (socket ids of the drivers) and positions ([lat, lng] pairs).
Ids == {"a", "b"}
Positions == {<<10, 20>>, <<10, 21>>}
\* Values of data.count in a response of /drivers/active-count.
Counts == {0, 2}

\* ------------------------------------------------------------------ state
VARIABLES
    driverLocations,     \* useState<DriverLocation[]>([]) as last rendered
    isLoading,           \* useState(true) as last rendered
    activeDriversCount,  \* useState(0) as last rendered
    updateQueue,         \* state updates enqueued since the last render
    notifications,       \* renders that showed the display a new table
    mounted,             \* the component is mounted (cleanup has not run)
    connected,           \* the socket's transport is open
    handlers,            \* registrations of the effect's socket.on handlers
    sendBuffer,          \* "user-connected" emits buffered until connect
    requested,           \* "user-connected" messages that reached the server
    intervalOn,          \* the 30 s interval is set
    inflight,            \* fetches of the active count awaiting an outcome
    uncaught,            \* exceptions thrown out of a socket handler
    showSearchBox,       \* useState(false)
    searchQuery,         \* useState(''), as a sequence of characters
    searchResults,       \* useState<SearchResult[]>([])
    routePoints,         \* useState({ start: null, end: null })
    routingMode,         \* useState<'start' | 'end' | null>(null)
    searching,           \* geocoder requests awaiting an outcome
    log                  \* inputs delivered so far, in order (history)

vars == <<driverLocations, isLoading, activeDriversCount, updateQueue,
          notifications, mounted, connected, handlers, sendBuffer, requested, intervalOn,
          inflight, uncaught, showSearchBox, searchQuery, searchResults,
          routePoints, routingMode, searching, log>>

\* ------------------------------------------------------------------ inputs
\* The payload of "driverLocationUpdate": { id, position }.
UpdatePayloads == [id : Ids, position : Positions]

\* The payload of "driverLocations": an object id -> position.  An object has
\* each key once and Object.entries lists the keys in insertion order, so the
\* object is the sequence of its entries, no id twice.  The payloads drawn are
\* those whose keys were inserted in the order a, b.
RECURSIVE SeqsUpTo(_, _)
SeqsUpTo(S, n) ==
    IF n = 0 THEN {<<>>}
    ELSE LET shorter == SeqsUpTo(S, n - 1)
         IN  shorter \cup {Append(s, x) : s \in shorter, x \in S}

Objects ==
    {o \in SeqsUpTo(Ids \X Positions, Cardinality(Ids)) :
        \A i, j \in 1..Len(o) : i < j => (o[i][1] = "a" /\ o[j][1] = "b")}

\* ------------------------------------------------------- the handlers' code
\* FindIndex with a comparison that never matches (driver === id).
FindIndexNoMatch(locations, id) == 0

\* prevLocations.findIndex(driver => driver.id === id); 0 stands for -1.
FindIndex(locations, id) ==
    IF \E i \in 1..Len(locations) : locations[i].id = id
    THEN CHOOSE i \in 1..Len(locations) :
            /\ locations[i].id = id
            /\ \A j \in 1..(i - 1) : locations[j].id # id
    ELSE 0

\* UpdateLocation returning the new driver alone: [{ ...data, path }].
UpdateLocationDropsOthers(prevLocations, data) ==
    LET existingDriverIndex == FindIndex(prevLocations, data.id)
    IN  IF existingDriverIndex # 0
        THEN LET existingDriver == prevLocations[existingDriverIndex]
             IN  [prevLocations EXCEPT ![existingDriverIndex] =
                    [id       |-> existingDriver.id,
                     position |-> data.position,
                     path     |-> Append(existingDriver.path, data.position)]]
        ELSE << [id       |-> data.id,
                 position |-> data.position,
                 path     |-> <<data.position>>] >>

\* UpdateLocation without the position of a known driver being set.
UpdateLocationPathOnly(prevLocations, data) ==
    LET existingDriverIndex == FindIndex(prevLocations, data.id)
    IN  IF existingDriverIndex # 0
        THEN LET existingDriver == prevLocations[existingDriverIndex]
             IN  [prevLocations EXCEPT ![existingDriverIndex] =
                    [id       |-> existingDriver.id,
                     position |-> existingDriver.position,
                     path     |-> Append(existingDriver.path, data.position)]]
        ELSE Append(prevLocations,
                    [id       |-> data.id,
                     position |-> data.position,
                     path     |-> <<data.position>>])

\* UpdateLocation with the new position put in front of the path.
UpdateLocationNewestFirst(prevLocations, data) ==
    LET existingDriverIndex == FindIndex(prevLocations, data.id)
    IN  IF existingDriverIndex # 0
        THEN LET existingDriver == prevLocations[existingDriverIndex]
             IN  [prevLocations EXCEPT ![existingDriverIndex] =
                    [id       |-> existingDriver.id,
                     position |-> data.position,
                     path     |-> <<data.position>> \o existingDriver.path]]
        ELSE Append(prevLocations,
                    [id       |-> data.id,
                     position |-> data.position,
                     path     |-> <<data.position>>])

\* The updater passed to setDriverLocations by the driverLocationUpdate
\* handler.
UpdateLocation(prevLocations, data) ==
    LET existingDriverIndex == FindIndex(prevLocations, data.id)
    IN  IF existingDriverIndex # 0
        THEN LET existingDriver == prevLocations[existingDriverIndex]
             IN  [prevLocations EXCEPT ![existingDriverIndex] =
                    [id       |-> existingDriver.id,
                     position |-> data.position,
                     path     |-> Append(existingDriver.path, data.position)]]
        ELSE Append(prevLocations,
                    [id       |-> data.id,
                     position |-> data.position,
                     path     |-> <<data.position>>])

\* Object.entries(drivers).map(([id, position]) => ({id, position, path}))
EntriesToLocations(drivers) ==
    [i \in 1..Len(drivers) |->
        [id       |-> drivers[i][1],
         position |-> drivers[i][2],
         path     |-> <<drivers[i][2]>>]]

\* RemoveDriver with === in place of !==.
\* The filter keeping every record.
RemoveDriverNoOp(prevDrivers, socketId) == prevDrivers

RemoveDriverKeepsOnlyId(prevDrivers, socketId) ==
    LET Keep(driverObj) == driverObj.id = socketId
    IN  SelectSeq(prevDrivers, Keep)

\* prevDrivers.filter(driverObj => driverObj.id !== socketId)
RemoveDriver(prevDrivers, socketId) ==
    LET Keep(driverObj) == driverObj.id # socketId
    IN  SelectSeq(prevDrivers, Keep)

\* OnDriverLocationUpdate computing the new table from the rendered one
\* instead of passing an updater: setDriverLocations(next(driverLocations)).
OnDriverLocationUpdateFromRendered(data) ==
    << [hook |-> "driverLocations", kind |-> "value",
        arg |-> UpdateLocation(driverLocations, data)],
       [hook |-> "isLoading", kind |-> "value", arg |-> FALSE] >>

\* What each handler passes to the state setters, in call order.
OnDriverLocationUpdate(data) ==
    << [hook |-> "driverLocations", kind |-> "update", arg |-> data],
       [hook |-> "isLoading", kind |-> "value", arg |-> FALSE] >>

\* OnDriverLocations setting one driver after the other through the updater of
\* position updates.
OnDriverLocationsEntryByEntry(drivers) ==
    [i \in 1..Len(drivers) |->
        [hook |-> "driverLocations", kind |-> "update",
         arg |-> [id |-> drivers[i][1], position |-> drivers[i][2]]]]
    \o << [hook |-> "isLoading", kind |-> "value", arg |-> FALSE] >>

\* OnDriverLocations adding the snapshot's records to the rendered table:
\* setDriverLocations([...driverLocations, ...updatedLocations]).
OnDriverLocationsMerging(drivers) ==
    << [hook |-> "driverLocations", kind |-> "value",
        arg |-> driverLocations \o EntriesToLocations(drivers)],
       [hook |-> "isLoading", kind |-> "value", arg |-> FALSE] >>

OnDriverLocations(drivers) ==
    << [hook |-> "driverLocations", kind |-> "value",
        arg |-> EntriesToLocations(drivers)],
       [hook |-> "isLoading", kind |-> "value", arg |-> FALSE] >>

\* OnDriverCheck that also ends the loading state.
OnDriverCheckEndsLoading(socketId) ==
    << [hook |-> "driverLocations", kind |-> "remove", arg |-> socketId],
       [hook |-> "isLoading", kind |-> "value", arg |-> FALSE] >>

\* OnDriverCheck that calls no state setter.
OnDriverCheckSilent(socketId) == <<>>

OnDriverCheck(socketId) ==
    << [hook |-> "driverLocations", kind |-> "remove", arg |-> socketId] >>

\* OnCountResponse taking the count from the rendered table.
OnCountResponseTableSize(count) ==
    << [hook |-> "activeDriversCount", kind |-> "value",
        arg |-> Len(driverLocations)] >>

OnCountResponse(count) ==
    << [hook |-> "activeDriversCount", kind |-> "value", arg |-> count] >>

\* driver.status: no handler gives a record a status property, so the read
\* yields undefined.
StatusOf(driver) ==
    IF "status" \in DOMAIN driver THEN driver.status ELSE "undefined"

\* getActiveDriverLocations with !== in place of ===.
getInactiveDriverLocations ==
    LET Active(driver) == StatusOf(driver) # "active"
    IN  SelectSeq(driverLocations, Active)

\* driverLocations.filter(driver => driver.status === 'active')
getActiveDriverLocations ==
    LET Active(driver) == StatusOf(driver) = "active"
    IN  SelectSeq(driverLocations, Active)

\* ------------------------------------------------------------------- React
\* One queued update applied to the state of its hook: a value replaces the
\* state, an updater function is called with the state so far.
ApplyUpdate(u, state) ==
    CASE u.kind = "value"  -> u.arg
      [] u.kind = "update" -> UpdateLocation(state, u.arg)
      [] u.kind = "remove" -> RemoveDriver(state, u.arg)

\* The state of a hook after the queued updates for it, oldest first.
RECURSIVE Reduce(_, _, _)
Reduce(queue, hook, state) ==
    IF queue = <<>> THEN state
    ELSE Reduce(Tail(queue), hook,
                IF Head(queue).hook = hook
                THEN ApplyUpdate(Head(queue), state)
                ELSE state)

\* The table the next render will show.
PendingLocations == Reduce(updateQueue, "driverLocations", driverLocations)

\* null as the value of routePoints.start and routePoints.end, and as the
\* value of routingMode.
null == <<>>
noMode == "null"

\* ------------------------------------------------------------------ Init
\* The state after the first render and the run of the effect on mount:
\* socket.connect() has started, "user-connected" is buffered by the socket
\* until the transport opens, the handlers are registered once, the first
\* fetchActiveDriversCount() is in flight and the interval is set.
Init ==
    /\ driverLocations = <<>>
    /\ isLoading = TRUE
    /\ activeDriversCount = 0
    /\ updateQueue = <<>>
    /\ notifications = 0
    /\ mounted = TRUE
    /\ connected = FALSE
    /\ handlers = 1
    /\ sendBuffer = 1
    /\ requested = 0
    /\ intervalOn = TRUE
    /\ inflight = 1
    /\ uncaught = 0
    /\ showSearchBox = FALSE
    /\ searchQuery = <<>>
    /\ searchResults = <<>>
    /\ routePoints = [start |-> null, end |-> null]
    /\ routingMode = noMode
    /\ searching = 0
    /\ log = <<>>

\* ---------------------------------------------------------------- actions
IsInput(e) == e.kind # "open"
MoreInputs == Len(SelectSeq(log, IsInput)) < MaxEvents

\* A socket event reaches the handlers registered for it.
CanDeliver == mounted /\ connected /\ handlers > 0 /\ MoreInputs

\* A handler's calls of the state setters: each registration of the handler
\* runs once per event.
RECURSIVE Times(_, _)
Times(calls, n) == IF n = 0 THEN <<>> ELSE calls \o Times(calls, n - 1)

socketUnchanged == UNCHANGED <<mounted, connected, handlers, sendBuffer,
                               requested, intervalOn>>
stateUnchanged == UNCHANGED <<driverLocations, isLoading, activeDriversCount,
                              notifications>>
\* What no handler of a well-formed input and no render touches.
routingUnchanged == UNCHANGED <<showSearchBox, searchQuery, searchResults,
                                routePoints, routingMode, searching>>
restUnchanged == UNCHANGED uncaught /\ routingUnchanged

\* socket.on("driverLocationUpdate", ...)
DriverLocationUpdate ==
    \E data \in UpdatePayloads :
        /\ CanDeliver
        /\ updateQueue' = updateQueue \o Times(OnDriverLocationUpdate(data), handlers)
        /\ log' = Append(log, [kind |-> "update", arg |-> data])
        /\ UNCHANGED inflight
        /\ socketUnchanged /\ stateUnchanged /\ restUnchanged

\* socket.on("driverLocations", ...)
DriverLocations ==
    \E drivers \in Objects :
        /\ CanDeliver
        /\ updateQueue' = updateQueue \o Times(OnDriverLocations(drivers), handlers)
        /\ log' = Append(log, [kind |-> "snapshot", arg |-> drivers])
        /\ UNCHANGED inflight
        /\ socketUnchanged /\ stateUnchanged /\ restUnchanged

\* socket.on("driverCheck", ...)
DriverCheck ==
    \E socketId \in Ids :
        /\ CanDeliver
        /\ updateQueue' = updateQueue \o Times(OnDriverCheck(socketId), handlers)
        /\ log' = Append(log, [kind |-> "remove", arg |-> socketId])
        /\ UNCHANGED inflight
        /\ socketUnchanged /\ stateUnchanged /\ restUnchanged

\* socket.on("active-drivers-updated", fetchActiveDriversCount): the fetch
\* starts.
ActiveDriversUpdated ==
    /\ CanDeliver
    /\ inflight' = inflight + handlers
    /\ log' = Append(log, [kind |-> "fetch", arg |-> 0])
    /\ UNCHANGED updateQueue
    /\ socketUnchanged /\ stateUnchanged /\ restUnchanged

\* setInterval(fetchActiveDriversCount, 30000) fires.  The log records a
\* started fetch the same way whatever started it.
IntervalTick ==
    /\ intervalOn
    /\ MoreInputs
    /\ inflight' = inflight + 1
    /\ log' = Append(log, [kind |-> "fetch", arg |-> 0])
    /\ UNCHANGED updateQueue
    /\ socketUnchanged /\ stateUnchanged /\ restUnchanged

\* fetchActiveDriversCount after its awaits: setActiveDriversCount(data.count).
\* A state setter of an unmounted component does nothing.
FetchResolved ==
    \E count \in Counts :
        /\ inflight > 0
        /\ MoreInputs
        /\ inflight' = inflight - 1
        /\ updateQueue' = IF mounted THEN updateQueue \o OnCountResponse(count)
                          ELSE updateQueue
        /\ log' = Append(log, [kind |-> "count", arg |-> count])
        /\ socketUnchanged /\ stateUnchanged /\ restUnchanged

\* A catch that sets the count back to 0.
FetchFailedResetsCount ==
    /\ inflight > 0
    /\ MoreInputs
    /\ inflight' = inflight - 1
    /\ log' = Append(log, [kind |-> "count-error", arg |-> 0])
    /\ updateQueue' = Append(updateQueue,
           [hook |-> "activeDriversCount", kind |-> "value", arg |-> 0])
    /\ socketUnchanged /\ stateUnchanged /\ restUnchanged

\* fetch or response.json() throws: the catch logs the error.
FetchFailed ==
    /\ inflight > 0
    /\ MoreInputs
    /\ inflight' = inflight - 1
    /\ log' = Append(log, [kind |-> "count-error", arg |-> 0])
    /\ UNCHANGED updateQueue
    /\ socketUnchanged /\ stateUnchanged /\ restUnchanged

\* The transport opens and the socket drops what was emitted before it opened.
TransportOpenDroppingBuffer ==
    /\ mounted /\ ~connected
    /\ connected' = TRUE
    /\ requested' = requested
    /\ sendBuffer' = 0
    /\ log' = Append(log, [kind |-> "open", arg |-> 0])
    /\ UNCHANGED <<mounted, handlers, intervalOn, inflight, updateQueue>>
    /\ stateUnchanged /\ restUnchanged

\* The transport opens, the first time or after a gap (the socket's manager
\* reconnects by itself).  The socket flushes its send buffer; the component
\* registers no "connect" handler, so none of its code runs.
TransportOpen ==
    /\ mounted /\ ~connected
    /\ connected' = TRUE
    /\ requested' = requested + sendBuffer
    /\ sendBuffer' = 0
    /\ log' = Append(log, [kind |-> "open", arg |-> 0])
    /\ UNCHANGED <<mounted, handlers, intervalOn, inflight, updateQueue>>
    /\ stateUnchanged /\ restUnchanged

\* The transport is lost (a network gap).
TransportLost ==
    /\ mounted /\ connected
    /\ MoreInputs
    /\ connected' = FALSE
    /\ log' = Append(log, [kind |-> "lost", arg |-> 0])
    /\ UNCHANGED <<mounted, handlers, sendBuffer, requested, intervalOn,
                   inflight, updateQueue>>
    /\ stateUnchanged /\ restUnchanged

\* React renders the component: every queued update is applied, in order.
\* setDriverLocations always passes a new array, so a render that applies one
\* hands the display (driverLocations.map) a new table.
Render ==
    /\ mounted
    /\ updateQueue # <<>>
    /\ driverLocations' = Reduce(updateQueue, "driverLocations", driverLocations)
    /\ isLoading' = Reduce(updateQueue, "isLoading", isLoading)
    /\ activeDriversCount' =
            Reduce(updateQueue, "activeDriversCount", activeDriversCount)
    /\ updateQueue' = <<>>
    /\ notifications' =
            IF \E k \in 1..Len(updateQueue) : updateQueue[k].hook = "driverLocations"
            THEN notifications + 1
            ELSE notifications
    /\ UNCHANGED <<inflight, log>>
    /\ socketUnchanged /\ restUnchanged

\* Cleanup that also empties the table: setDriverLocations([]) before the
\* socket is closed.
CleanupClearingTable ==
    /\ mounted
    /\ MoreInputs
    /\ mounted' = FALSE
    /\ connected' = FALSE
    /\ intervalOn' = FALSE
    /\ driverLocations' = <<>>
    /\ updateQueue' = <<>>
    /\ log' = Append(log, [kind |-> "unmount", arg |-> 0])
    /\ UNCHANGED <<handlers, sendBuffer, requested, inflight, isLoading,
                   activeDriversCount, notifications>>
    /\ restUnchanged

\* The effect's cleanup on unmount: socket.offAny() removes the catch-all
\* listeners only (there are none), socket.disconnect() closes the socket for
\* good, clearInterval stops the timer.  Updates still queued are never
\* rendered.
Cleanup ==
    /\ mounted
    /\ MoreInputs
    /\ mounted' = FALSE
    /\ connected' = FALSE
    /\ intervalOn' = FALSE
    /\ log' = Append(log, [kind |-> "unmount", arg |-> 0])
    /\ UNCHANGED <<handlers, sendBuffer, requested, inflight, updateQueue>>
    /\ stateUnchanged /\ restUnchanged

Next ==
    \/ DriverLocationUpdate
    \/ DriverLocations
    \/ DriverCheck
    \/ ActiveDriversUpdated
    \/ IntervalTick
    \/ FetchResolved
    \/ FetchFailed
    \/ TransportOpen
    \/ TransportLost
    \/ Render
    \/ Cleanup

Spec == Init /\ [][Next]_vars

\* ---------------------------------------------------------- malformed inputs
\* JavaScript's undefined, as the handlers read it from a property the payload
\* does not have: as an id and as a position.  A record built from such a
\* payload reads the same whether the property is missing or undefined.
NoId == "undefined"
NoPosition == <<>>

\* Payloads of "driverLocationUpdate" without an id or without a position.
MalformedUpdates ==
    [id : {NoId}, position : Positions] \cup [id : Ids, position : {NoPosition}]

\* Payloads of "driverLocations" that are no object: null and a number.
NonObjects == {"null", "42"}

\* Object.entries of such a payload: a TypeError for null, no entries for a
\* number.
EntriesThrows(payload) == payload = "null"
EntriesOfNonObject(payload) == <<>>

\* socket.on("driverLocationUpdate", ...) with a malformed payload: the handler
\* has no check, the same code runs.
MalformedDriverLocationUpdate ==
    \E data \in MalformedUpdates :
        /\ CanDeliver
        /\ updateQueue' = updateQueue \o Times(OnDriverLocationUpdate(data), handlers)
        /\ log' = Append(log, [kind |-> "malformed-update", arg |-> data])
        /\ UNCHANGED inflight
        /\ socketUnchanged /\ stateUnchanged /\ restUnchanged

\* socket.on("driverLocations", ...) with a payload that is no object: when
\* Object.entries throws, the handler ends before it calls a state setter.
MalformedDriverLocations ==
    \E payload \in NonObjects :
        /\ CanDeliver
        /\ IF EntriesThrows(payload)
           THEN /\ uncaught' = uncaught + handlers
                /\ UNCHANGED updateQueue
           ELSE /\ updateQueue' = updateQueue \o
                      Times(OnDriverLocations(EntriesOfNonObject(payload)), handlers)
                /\ UNCHANGED uncaught
        /\ log' = Append(log, [kind |-> "malformed-snapshot", arg |-> payload])
        /\ UNCHANGED inflight
        /\ socketUnchanged /\ stateUnchanged /\ routingUnchanged

NextMalformed ==
    \/ Next
    \/ MalformedDriverLocationUpdate
    \/ MalformedDriverLocations

\* The component fed well-formed and malformed events.
SpecMalformed == Init /\ [][NextMalformed]_vars

\* ------------------------------------------------------------ the feed alone
\* The socket and its three table events while the component stays mounted,
\* the polling of the count left aside.
NextFeed ==
    \/ TransportOpen
    \/ TransportLost
    \/ DriverLocationUpdate
    \/ DriverLocations
    \/ DriverCheck
    \/ Render

SpecFeed == Init /\ [][NextFeed]_vars

\* ------------------------------------------------------- the effect run again
\* The effect runs again after its cleanup, on the same component and the same
\* socket (socketRef keeps it): React's development double run of effects.  The
\* state is kept.  socket.connect() starts a connection, "user-connected" is
\* buffered, socket.on adds the handlers to the ones the cleanup left
\* registered, a fetch starts and a new interval is set.
EffectRunsAgain ==
    /\ ~mounted
    /\ MoreInputs
    /\ mounted' = TRUE
    /\ handlers' = handlers + 1
    /\ sendBuffer' = sendBuffer + 1
    /\ intervalOn' = TRUE
    /\ inflight' = inflight + 1
    /\ log' = Append(log, [kind |-> "mount", arg |-> 0])
    /\ UNCHANGED <<connected, requested, updateQueue>>
    /\ stateUnchanged /\ restUnchanged

NextRemount ==
    \/ Next
    \/ EffectRunsAgain

\* The component whose effect may be cleaned up and run again.
SpecRemount == Init /\ [][NextRemount]_vars

\* ------------------------------------------------------ search and routing
\* The search box, the geocoder search and the two route points.  A click is a
\* discrete event: React renders the updates of its handler before the next
\* event is handled, so each of these actions ends with the state rendered.
MaxSearches == 1
ShownResults == 5

Lahore == [display_name |-> "Lahore", lat |-> 31, lon |-> 74]
Karachi == [display_name |-> "Karachi", lat |-> 24, lon |-> 67]
\* What the geocoder answers: nothing found, or a list of places.
SearchAnswers == {<<>>, <<Lahore, Karachi>>}
\* What the user types: nothing, a blank, a letter.
Queries == {<<>>, <<" ">>, <<"l">>}

\* String.prototype.trim on a sequence of characters.
RECURSIVE Trim(_)
Trim(q) ==
    IF q = <<>> THEN q
    ELSE IF Head(q) = " " THEN Trim(Tail(q))
    ELSE IF q[Len(q)] = " " THEN Trim(SubSeq(q, 1, Len(q) - 1))
    ELSE q

\* searchResults.slice(0, 5)
Shown(results) ==
    SubSeq(results, 1, IF Len(results) < ShownResults THEN Len(results)
                       ELSE ShownResults)

\* <RoutingControl> is in the rendered tree: it is a child of <MapContainer>,
\* which takes the place of the spinner when isLoading is false.
RoutingControlRendered ==
    /\ ~isLoading
    /\ routePoints.start # null
    /\ routePoints.end # null

feedUnchanged ==
    /\ UNCHANGED <<updateQueue, inflight, uncaught, log>>
    /\ socketUnchanged /\ stateUnchanged

startRouteSelection ==
    \E mode \in {"start", "end"} :
        /\ mounted
        /\ routingMode' = mode
        /\ showSearchBox' = TRUE
        /\ UNCHANGED <<searchQuery, searchResults, routePoints, searching>>
        /\ feedUnchanged

\* The search button of the bottom bar.
OpenSearchBox ==
    /\ mounted
    /\ showSearchBox' = TRUE
    /\ UNCHANGED <<searchQuery, searchResults, routePoints, routingMode, searching>>
    /\ feedUnchanged

\* The X button of the search box.
CloseSearchBox ==
    /\ mounted /\ showSearchBox
    /\ showSearchBox' = FALSE
    /\ UNCHANGED <<searchQuery, searchResults, routePoints, routingMode, searching>>
    /\ feedUnchanged

\* onChange of the input of the search box.
TypeQuery ==
    \E q \in Queries :
        /\ mounted /\ showSearchBox
        /\ searchQuery' = q
        /\ UNCHANGED <<showSearchBox, searchResults, routePoints, routingMode,
                       searching>>
        /\ feedUnchanged

\* handleSearch up to its first await: a blank query returns at once.
handleSearch ==
    /\ mounted /\ showSearchBox
    /\ Trim(searchQuery) # <<>>
    /\ searching < MaxSearches
    /\ searching' = searching + 1
    /\ UNCHANGED <<showSearchBox, searchQuery, searchResults, routePoints,
                   routingMode>>
    /\ feedUnchanged

\* handleSearch after its awaits: setSearchResults(results).
SearchResolved ==
    \E results \in SearchAnswers :
        /\ mounted
        /\ searching > 0
        /\ searching' = searching - 1
        /\ searchResults' = results
        /\ UNCHANGED <<showSearchBox, searchQuery, routePoints, routingMode>>
        /\ feedUnchanged

\* fetch or response.json() throws in handleSearch: the catch logs the error.
SearchFailed ==
    /\ mounted
    /\ searching > 0
    /\ searching' = searching - 1
    /\ UNCHANGED <<showSearchBox, searchQuery, searchResults, routePoints,
                   routingMode>>
    /\ feedUnchanged

\* handleLocationSelect that leaves the routing mode as it was.
handleLocationSelectKeepsMode ==
    \E k \in 1..Len(Shown(searchResults)) :
        LET location == Shown(searchResults)[k]
        IN  /\ mounted
            /\ routePoints' =
                  IF routingMode = "start"
                  THEN [routePoints EXCEPT !.start = location]
                  ELSE IF routingMode = "end"
                  THEN [routePoints EXCEPT !.end = location]
                  ELSE routePoints
            /\ searchResults' = <<>>
            /\ showSearchBox' = FALSE
            /\ UNCHANGED <<searchQuery, searching, routingMode>>
            /\ feedUnchanged

\* A click on one of the results shown (either list of results).
handleLocationSelect ==
    \E k \in 1..Len(Shown(searchResults)) :
        LET location == Shown(searchResults)[k]
        IN  /\ mounted
            /\ routePoints' =
                  IF routingMode = "start"
                  THEN [routePoints EXCEPT !.start = location]
                  ELSE IF routingMode = "end"
                  THEN [routePoints EXCEPT !.end = location]
                  ELSE routePoints
            /\ searchResults' = <<>>
            /\ showSearchBox' = FALSE
            /\ routingMode' = noMode
            /\ UNCHANGED <<searchQuery, searching>>
            /\ feedUnchanged

\* The clear button, rendered when both route points are set.
clearRoute ==
    /\ mounted
    /\ routePoints.start # null /\ routePoints.end # null
    /\ routePoints' = [start |-> null, end |-> null]
    /\ UNCHANGED <<showSearchBox, searchQuery, searchResults, routingMode,
                   searching>>
    /\ feedUnchanged

\* The position updates that arrive while the spinner is shown: what the table
\* holds once the map is shown plays no part in the search and the routing.
DriverLocationUpdateWhileLoading == isLoading /\ DriverLocationUpdate

NextRouting ==
    \/ TransportOpen
    \/ DriverLocationUpdateWhileLoading
    \/ Render
    \/ startRouteSelection
    \/ OpenSearchBox
    \/ CloseSearchBox
    \/ TypeQuery
    \/ handleSearch
    \/ SearchResolved
    \/ SearchFailed
    \/ handleLocationSelect
    \/ clearRoute

\* The component with its search box and routing buttons in use.
SpecRouting == Init /\ [][NextRouting]_vars

\* ------------------------------------------------------------ three drivers
\* The events of the scenario of three drivers: ids a, b, c at [1,1], [2,2],
\* [3,3].  A snapshot lists a driver at its own position; an update moves a
\* driver to any of the three.
WideIds == {"a", "b", "c"}
WidePositionOf(id) ==
    CASE id = "a" -> <<1, 1>> [] id = "b" -> <<2, 2>> [] id = "c" -> <<3, 3>>
WideUpdates == [id : WideIds, position : {WidePositionOf(id) : id \in WideIds}]
WideObjects ==
    {o \in SeqsUpTo({<<id, WidePositionOf(id)>> : id \in WideIds},
                    Cardinality(WideIds)) :
        \A i, j \in 1..Len(o) : i < j => o[i][2][1] < o[j][2][1]}

\* socket.on("driverLocationUpdate", ...)
WideDriverLocationUpdate ==
    \E data \in WideUpdates :
        /\ CanDeliver
        /\ updateQueue' = updateQueue \o Times(OnDriverLocationUpdate(data), handlers)
        /\ log' = Append(log, [kind |-> "update", arg |-> data])
        /\ UNCHANGED inflight
        /\ socketUnchanged /\ stateUnchanged /\ restUnchanged

\* socket.on("driverLocations", ...)
WideDriverLocations ==
    \E drivers \in WideObjects :
        /\ CanDeliver
        /\ updateQueue' = updateQueue \o Times(OnDriverLocations(drivers), handlers)
        /\ log' = Append(log, [kind |-> "snapshot", arg |-> drivers])
        /\ UNCHANGED inflight
        /\ socketUnchanged /\ stateUnchanged /\ restUnchanged

NextWide ==
    \/ TransportOpen
    \/ WideDriverLocationUpdate
    \/ WideDriverLocations
    \/ Render

\* The component fed snapshots and position updates of three drivers.
SpecWide == Init /\ [][NextWide]_vars

\* ------------------------------------------------------ reading the history
\* The inputs of the log that are events on the driver table.
IsTableEvent(e) == e.kind \in {"update", "snapshot", "remove"}
TableEvents(l) == SelectSeq(l, IsTableEvent)

\* The records a table holds for an id, and the ids it holds.
RecordsOf(locations, id) ==
    LET Same(driver) == driver.id = id
    IN  SelectSeq(locations, Same)
IdsOf(locations) == {locations[k].id : k \in 1..Len(locations)}

\* The ids and the position of an id in a "driverLocations" payload.
KeysOf(drivers) == {drivers[k][1] : k \in 1..Len(drivers)}
ValueOf(drivers, id) ==
    drivers[CHOOSE k \in 1..Len(drivers) : drivers[k][1] = id][2]

\* The last input, among the first n of the log, that makes what the table
\* held for the id void: a snapshot, or a removal of the id (0: none).
EndsRun(e, id) == e.kind = "snapshot" \/ (e.kind = "remove" /\ e.arg = id)
LastEnd(l, id) ==
    LET ends == {k \in 1..Len(l) : EndsRun(l[k], id)}
    IN  IF ends = {} THEN 0 ELSE CHOOSE k \in ends : \A m \in ends : m <= k

\* The id was unknown after that input: the table was empty from the start, the
\* id was removed, or a snapshot without the id replaced the table.
UnknownAfterLastEnd(l, id) ==
    LET k == LastEnd(l, id)
    IN  \/ k = 0
        \/ l[k].kind = "remove"
        \/ l[k].kind = "snapshot" /\ id \notin KeysOf(l[k].arg)

\* The positions of the position updates for the id since then, in order.
RECURSIVE PositionsFor(_, _, _)
PositionsFor(l, from, id) ==
    IF from > Len(l) THEN <<>>
    ELSE IF l[from].kind = "update" /\ l[from].arg.id = id
         THEN <<l[from].arg.position>> \o PositionsFor(l, from + 1, id)
         ELSE PositionsFor(l, from + 1, id)
RunOf(l, id) == PositionsFor(l, LastEnd(l, id) + 1, id)

\* ------------------------------------------------------------------ claims
\* C1: n position updates for an id that was unknown before the first of them,
\* with no snapshot and no removal of the id in between, leave one record for
\* the id whose path has length n and is [p_1, ..., p_n] in arrival order, and
\* whose position is p_n.
C1_PathIsUpdatesInOrder ==
    \A id \in Ids :
        LET run == RunOf(log, id)
            n == Len(run)
            recs == RecordsOf(PendingLocations, id)
        IN  (UnknownAfterLastEnd(log, id) /\ n > 0) =>
                /\ Len(recs) = 1
                /\ Len(recs[1].path) = n
                /\ recs[1].path = run
                /\ recs[1].position = run[n]

\* Three updates for one id with two different positions have been rendered.
C1_Witness ==
    /\ updateQueue = <<>>
    /\ UnknownAfterLastEnd(log, "a")
    /\ RunOf(log, "a") = << <<10, 20>>, <<10, 21>>, <<10, 20>> >>
    /\ Len(driverLocations) = 1
    /\ driverLocations[1].path = RunOf(log, "a")

\* C2: after a full snapshot with entries E, whatever the table held before,
\* the table's ids are exactly the keys of E (none when E is empty) and every
\* record has position E[id] and path [E[id]].
C2_SnapshotReplacesTable ==
    (log # <<>> /\ log[Len(log)].kind = "snapshot") =>
        LET E == log[Len(log)].arg
        IN  /\ IdsOf(PendingLocations) = KeysOf(E)
            /\ Len(PendingLocations) = Cardinality(KeysOf(E))
            /\ \A k \in 1..Len(PendingLocations) :
                  LET driver == PendingLocations[k]
                  IN  /\ driver.position = ValueOf(E, driver.id)
                      /\ driver.path = <<ValueOf(E, driver.id)>>

\* A snapshot without "a" arrives when "a" has a path of two positions: the
\* record of "a" is gone and "b" starts with a path of one position.
C2_Witness ==
    /\ Len(log) = 4
    /\ log[2].kind = "update" /\ log[2].arg.id = "a"
    /\ log[3].kind = "update" /\ log[3].arg.id = "a"
    /\ log[4].kind = "snapshot" /\ log[4].arg = << <<"b", <<10, 21>>>> >>
    /\ PendingLocations =
          << [id |-> "b", position |-> <<10, 21>>, path |-> << <<10, 21>> >>] >>

\* C3: a removal of an id the table holds leaves the table without a record for
\* the id and the other records as they were; a removal of an id the table
\* does not hold leaves the table as it was.  From an empty table, update
\* (a, [10,20]), update (a, [10,21]), removal of a end with an empty table.
C3_Scenario ==
    << [kind |-> "update", arg |-> [id |-> "a", position |-> <<10, 20>>]],
       [kind |-> "update", arg |-> [id |-> "a", position |-> <<10, 21>>]],
       [kind |-> "remove", arg |-> "a"] >>

C3_RemovalStep ==
    \A id \in Ids :
        (log' = Append(log, [kind |-> "remove", arg |-> id])) =>
            /\ id \notin IdsOf(PendingLocations')
            /\ \A other \in Ids \ {id} :
                  RecordsOf(PendingLocations', other) =
                  RecordsOf(PendingLocations, other)
            /\ Len(PendingLocations') =
                  Len(PendingLocations) - Len(RecordsOf(PendingLocations, id))
            /\ (id \notin IdsOf(PendingLocations) =>
                  PendingLocations' = PendingLocations)

\* C3 as a formula: every removal step deletes or does nothing, and the
\* scenario ends with an empty table.
C3_RemovalDeletesOrNoOp ==
    /\ [][C3_RemovalStep]_vars
    /\ [](TableEvents(log) = C3_Scenario => PendingLocations = <<>>)

\* The scenario has run and has been rendered: the display reads an empty table.
C3_Witness ==
    /\ TableEvents(log) = C3_Scenario
    /\ updateQueue = <<>>
    /\ driverLocations = <<>>
    /\ notifications >= 1

\* C4: position updates for distinct ids, interleaved in any way and also when
\* several are handled before the next render, lose no update and change no
\* record of another id: each id's path is the positions sent for that id, in
\* order.
OnlyUpdates(l) == \A k \in 1..Len(l) : IsTableEvent(l[k]) => l[k].kind = "update"

C4_UpdateStep ==
    \A data \in UpdatePayloads :
        (log' = Append(log, [kind |-> "update", arg |-> data])) =>
            \A other \in Ids \ {data.id} :
                RecordsOf(PendingLocations', other) =
                RecordsOf(PendingLocations, other)

C4_PathsOf(locations) ==
    \A id \in Ids :
        LET sent == PositionsFor(log, 1, id)
            recs == RecordsOf(locations, id)
        IN  IF sent = <<>> THEN recs = <<>>
            ELSE Len(recs) = 1 /\ recs[1].path = sent

\* C4 as a formula: an update step leaves the records of the other ids alone,
\* and while only updates have arrived every path is what was sent for its id.
C4_DistinctIdsIsolated ==
    /\ [][C4_UpdateStep]_vars
    /\ [](OnlyUpdates(log) =>
            /\ C4_PathsOf(PendingLocations)
            /\ (updateQueue = <<>> => C4_PathsOf(driverLocations)))

\* Updates for a, b, a were handled before one render showed all three.
C4_Witness ==
    /\ TableEvents(log) =
          << [kind |-> "update", arg |-> [id |-> "a", position |-> <<10, 20>>]],
             [kind |-> "update", arg |-> [id |-> "b", position |-> <<10, 20>>]],
             [kind |-> "update", arg |-> [id |-> "a", position |-> <<10, 21>>]] >>
    /\ notifications = 1
    /\ updateQueue = <<>>
    /\ Len(driverLocations) = 2
    /\ driverLocations[1].path = << <<10, 20>>, <<10, 21>> >>

\* C5: in every reachable state every record of the driver table, rendered or
\* about to be rendered, has a non-empty path whose last element is the
\* record's position.
C5_LastOfPath(locations) ==
    \A k \in 1..Len(locations) :
        /\ locations[k].path # <<>>
        /\ locations[k].path[Len(locations[k].path)] = locations[k].position

\* C5 as a formula, for the rendered table and the one about to be rendered.
C5_PathEndsAtPosition ==
    C5_LastOfPath(driverLocations) /\ C5_LastOfPath(PendingLocations)

\* A rendered record whose path holds two different positions.
C5_Witness ==
    \E k \in 1..Len(driverLocations) :
        /\ Len(driverLocations[k].path) = 2
        /\ driverLocations[k].path[1] # driverLocations[k].path[2]

\* C6: in every reachable state the driver table, an array, holds at most one
\* record per id.
C6_Unique(locations) ==
    \A i, j \in 1..Len(locations) :
        locations[i].id = locations[j].id => i = j

\* C6 as a formula, for the rendered table and the one about to be rendered.
C6_OneRecordPerId ==
    C6_Unique(driverLocations) /\ C6_Unique(PendingLocations)

\* A table of two records, one of them updated after a snapshot created it.
C6_Witness ==
    /\ Len(driverLocations) = 2
    /\ \E k \in 1..Len(log) : log[k].kind = "snapshot"
    /\ \E k \in 1..2 : Len(driverLocations[k].path) = 2

\* The table of section 4.2 after the first n inputs of the log: the path of
\* every id, the empty path for an id the table does not hold.
RECURSIVE TableAfter(_, _)
TableAfter(l, n) ==
    IF n = 0 THEN [id \in Ids |-> <<>>]
    ELSE LET before == TableAfter(l, n - 1)
             e == l[n]
         IN  CASE e.kind = "update" ->
                    [before EXCEPT ![e.arg.id] = Append(@, e.arg.position)]
               [] e.kind = "snapshot" ->
                    [id \in Ids |-> IF id \in KeysOf(e.arg)
                                    THEN <<ValueOf(e.arg, id)>>
                                    ELSE <<>>]
               [] e.kind = "remove" -> [before EXCEPT ![e.arg] = <<>>]
               [] OTHER -> before

\* The paths an array of records holds, as such a table.
PathsOf(locations) ==
    [id \in Ids |->
        LET recs == RecordsOf(locations, id)
        IN  IF recs = <<>> THEN <<>> ELSE recs[1].path]

\* C7: a render never shows a table that holds a part of a snapshot or a mix
\* of ids from before and from the snapshot: the rendered table is always the
\* table as it stood after a whole number of the events handled so far, so,
\* across a snapshot, the table before it or one whose ids are the snapshot's.
C7_SnapshotIndivisible ==
    /\ C6_Unique(driverLocations)
    /\ \E n \in 0..Len(log) : PathsOf(driverLocations) = TableAfter(log, n)

\* A snapshot with b only is handled but not yet rendered while the display
\* shows a only.
C7_Witness ==
    /\ log # <<>>
    /\ log[Len(log)].kind = "snapshot"
    /\ KeysOf(log[Len(log)].arg) = {"b"}
    /\ IdsOf(driverLocations) = {"a"}
    /\ updateQueue # <<>>
    /\ IdsOf(PendingLocations) = {"b"}

\* A table update waits for the next render.
TableUpdateQueued ==
    \E k \in 1..Len(updateQueue) : updateQueue[k].hook = "driverLocations"

Opens(l) == {k \in 1..Len(l) : l[k].kind = "open"}

\* C9: whenever the transport reconnects after a gap, a fresh snapshot request
\* is issued, and a snapshot is applied before any position update received
\* after the reconnect.
C9_ResyncOnReconnect ==
    /\ connected => requested >= Cardinality(Opens(log))
    /\ \A k \in 1..Len(log) :
          (log[k].kind = "update" /\ \E j \in 1..k : log[j].kind = "lost") =>
              LET opened == CHOOSE o \in Opens(log) :
                                o < k /\ \A p \in Opens(log) : p < k => p <= o
              IN  \E s \in (opened + 1)..(k - 1) : log[s].kind = "snapshot"

\* C10: in every reachable state the active-driver count shown equals the
\* number of records in the driver table.
C10_CountIsTableSize == activeDriversCount = Len(driverLocations)

\* The count of the latest response of /drivers/active-count, 0 before the
\* first one.
LastCount(l) ==
    LET counts == {k \in 1..Len(l) : l[k].kind = "count"}
    IN  IF counts = {} THEN 0
        ELSE l[CHOOSE k \in counts : \A m \in counts : m <= k].arg

\* A count waits for the next render.
CountQueued ==
    \E k \in 1..Len(updateQueue) : updateQueue[k].hook = "activeDriversCount"

\* C10, amended: the count shown is the count of the latest response of
\* /drivers/active-count, 0 before the first one; it is not derived from the
\* driver table and events on the table do not change it.
C10_CountIsLastResponse ==
    mounted =>
        /\ Reduce(updateQueue, "activeDriversCount", activeDriversCount)
              = LastCount(log)
        /\ (~CountQueued => activeDriversCount = LastCount(log))

\* The display shows a count of 2 over a table of one record.
C10_Witness ==
    /\ mounted
    /\ updateQueue = <<>>
    /\ activeDriversCount = 2
    /\ Len(driverLocations) = 1

\* C11: a malformed inbound event (a position update without id or without
\* position, a snapshot payload that is no id-to-position map) is dropped: the
\* handler does not throw and the table is the one the well-formed events
\* alone produce.
C11_MalformedDropped ==
    /\ uncaught = 0
    /\ IdsOf(PendingLocations) \subseteq Ids
    /\ PathsOf(PendingLocations) = TableAfter(log, Len(log))

\* C12: a transport disconnect does not change the driver table.  No step taken
\* when the transport is lost or when the effect's cleanup disconnects the
\* socket alters the table, rendered or queued, and a record leaves the table
\* only by a later snapshot or removal.
C12_DisconnectStep ==
    /\ (\/ log' = Append(log, [kind |-> "lost", arg |-> 0])
        \/ log' = Append(log, [kind |-> "unmount", arg |-> 0]))
          => /\ driverLocations' = driverLocations
             /\ PendingLocations' = PendingLocations
    /\ (IdsOf(PendingLocations) \ IdsOf(PendingLocations') # {})
          => /\ Len(log') = Len(log) + 1
             /\ log'[Len(log')].kind \in {"snapshot", "remove"}

C12_TableKeptOnDisconnect == [][C12_DisconnectStep]_vars

\* The transport was lost and then the cleanup ran while the display showed
\* two drivers: both are still there.
C12_Witness ==
    /\ Len(log) >= 2
    /\ log[Len(log) - 1].kind = "lost"
    /\ log[Len(log)].kind = "unmount"
    /\ ~mounted /\ ~connected
    /\ IdsOf(driverLocations) = {"a", "b"}

\* C13: a position update for an id that the snapshot before it does not list
\* adds a record for the id with a path of that one position and leaves the
\* snapshot's records in place with their paths of one position.  From the
\* snapshot {a: [1,1], b: [2,2]}, the update (c, [3,3]) gives the ids a, b, c
\* with a.path = [[1,1]] and c.path = [[3,3]].
C13_Scenario ==
    << [kind |-> "snapshot", arg |-> << <<"a", <<1, 1>>>>, <<"b", <<2, 2>>>> >>],
       [kind |-> "update", arg |-> [id |-> "c", position |-> <<3, 3>>]] >>

C13_UpdateAfterSnapshotAdds ==
    LET t == TableEvents(log)
        n == Len(t)
    IN  /\ (n >= 2 /\ t[n - 1].kind = "snapshot" /\ t[n].kind = "update"
               /\ t[n].arg.id \notin KeysOf(t[n - 1].arg)) =>
              LET E == t[n - 1].arg
                  data == t[n].arg
              IN  /\ IdsOf(PendingLocations) = KeysOf(E) \cup {data.id}
                  /\ Len(PendingLocations) = Cardinality(KeysOf(E)) + 1
                  /\ RecordsOf(PendingLocations, data.id) =
                        << [id |-> data.id, position |-> data.position,
                            path |-> <<data.position>>] >>
                  /\ \A id \in KeysOf(E) :
                        RecordsOf(PendingLocations, id) =
                            << [id |-> id, position |-> ValueOf(E, id),
                                path |-> <<ValueOf(E, id)>>] >>
        /\ t = C13_Scenario =>
              /\ IdsOf(PendingLocations) = {"a", "b", "c"}
              /\ RecordsOf(PendingLocations, "a")[1].path = << <<1, 1>> >>
              /\ RecordsOf(PendingLocations, "c")[1].path = << <<3, 3>> >>

\* The scenario has run and the display shows the three drivers.
C13_Witness ==
    /\ TableEvents(log) = C13_Scenario
    /\ updateQueue = <<>>
    /\ Len(driverLocations) = 3
    /\ IdsOf(driverLocations) = {"a", "b", "c"}

\* C14: with inbound events that carry id and position only, the status filter
\* getActiveDriverLocations returns an empty list in every reachable state,
\* however many records the table holds.
C14_StatusFilterEmpty == getActiveDriverLocations = <<>>

\* The display shows two drivers and the filter yields none of them.
C14_Witness ==
    /\ Len(driverLocations) = 2
    /\ getActiveDriverLocations = <<>>

\* C15: after the effect's cleanup the handlers it registered no longer act on
\* events: when the effect has run again on the same socket, each position
\* update is applied to the table once, one position appended to the path per
\* update.
C15_UpdateAppliedOnce ==
    \A id \in Ids :
        LET run == RunOf(log, id)
            recs == RecordsOf(PendingLocations, id)
        IN  (UnknownAfterLastEnd(log, id) /\ run # <<>>) =>
                /\ Len(recs) = 1
                /\ Len(recs[1].path) = Len(run)

\* The last two table events of the history are a removal of id and an update
\* of id, in the order given by the kinds.
C16_LastTwo(first, second, id) ==
    LET t == TableEvents(log)
        n == Len(t)
    IN  /\ n >= 2
        /\ t[n - 1].kind = first
        /\ t[n].kind = second
        /\ (IF first = "remove" THEN t[n - 1].arg ELSE t[n - 1].arg.id) = id
        /\ (IF second = "remove" THEN t[n].arg ELSE t[n].arg.id) = id

\* The records of the other ids are the ones from before the two events.
C16_OthersKept(id) ==
    LET t == TableEvents(log)
    IN  \A other \in Ids \ {id} :
            PathsOf(PendingLocations)[other] = TableAfter(t, Len(t) - 2)[other]

\* C16: a removal of id followed by a late update of id with position p leaves
\* one record of id whose path is exactly <<p>>, nothing of the history before
\* the removal; an update of id followed by a removal of id leaves no record of
\* id.  The records of the other ids are unchanged in both orders.
C16_RemovalRaceHarmless ==
    \A id \in Ids :
        /\ C16_LastTwo("remove", "update", id) =>
              LET t == TableEvents(log)
                  recs == RecordsOf(PendingLocations, id)
              IN  /\ Len(recs) = 1
                  /\ recs[1].path = <<t[Len(t)].arg.position>>
                  /\ recs[1].position = t[Len(t)].arg.position
                  /\ C16_OthersKept(id)
        /\ C16_LastTwo("update", "remove", id) =>
              /\ RecordsOf(PendingLocations, id) = <<>>
              /\ C16_OthersKept(id)

\* A snapshot created a and b, a was removed and then updated: the display
\* shows a with a path of one position next to the record of b.
C16_Witness ==
    /\ C16_LastTwo("remove", "update", "a")
    /\ TableAfter(TableEvents(log), 1)["a"] # <<>>
    /\ TableAfter(TableEvents(log), 1)["b"] # <<>>
    /\ updateQueue = <<>>
    /\ Len(PathsOf(driverLocations)["a"]) = 1
    /\ PathsOf(driverLocations)["b"] # <<>>

\* C17: on mount the component issues exactly one "user-connected" request,
\* buffered or sent, and the handler of the snapshot is registered before the
\* request can reach the server, so a snapshot that arrives is handled as a
\* snapshot: the table it leaves holds the snapshot's ids.
C17_OneRequestHandlerFirst ==
    LET t == TableEvents(log)
    IN  /\ sendBuffer + requested = 1
        /\ requested > 0 => handlers >= 1
        /\ handlers = 1
        /\ \A k \in 1..Len(log) :
              log[k].kind = "snapshot" => \E j \in 1..(k - 1) : log[j].kind = "open"
        /\ (t # <<>> /\ t[Len(t)].kind = "snapshot") =>
              /\ IdsOf(PendingLocations) = KeysOf(t[Len(t)].arg)
              /\ Len(PendingLocations) = Len(t[Len(t)].arg)

\* The request was sent when the transport opened and the snapshot that came
\* back, with a and b, is on display.
C17_Witness ==
    /\ requested = 1 /\ sendBuffer = 0
    /\ Len(log) = 2 /\ log[2].kind = "snapshot"
    /\ updateQueue = <<>>
    /\ IdsOf(driverLocations) = {"a", "b"}

\* An update or a snapshot has been handled.
C18_DataHandled(l) ==
    \E k \in 1..Len(l) : l[k].kind \in {"update", "snapshot"}

\* C18: isLoading starts TRUE, is set to FALSE by the first update or snapshot
\* and by nothing else (a removal or a count response leaves it), and a render
\* never takes it from FALSE back to TRUE.
C18_LoadingMonotonic ==
    /\ [](/\ Reduce(updateQueue, "isLoading", isLoading) = ~C18_DataHandled(log)
          /\ ~isLoading => C18_DataHandled(log))
    /\ [][~isLoading => ~isLoading']_vars

\* The spinner is still shown after a removal and a count response were
\* rendered.
C18_Witness ==
    /\ isLoading
    /\ updateQueue = <<>>
    /\ \E k \in 1..Len(log) : log[k].kind = "remove"
    /\ \E k \in 1..Len(log) : log[k].kind = "count"
    /\ activeDriversCount = 2

\* The step appends an entry of this kind to the history.
C19_Logs(kind) ==
    /\ Len(log') = Len(log) + 1
    /\ log'[Len(log')].kind = kind

\* C19: a failed fetch of the count is caught: nothing is thrown, the count on
\* display and the count pending keep their values, the table is unchanged, and
\* the interval and the handler of "active-drivers-updated" stay armed; a
\* trigger that fires afterwards starts a new fetch.
C19_FailedFetchStep ==
    /\ C19_Logs("count-error") =>
          /\ UNCHANGED <<activeDriversCount, driverLocations, updateQueue>>
          /\ UNCHANGED <<uncaught, intervalOn, handlers, mounted, connected>>
    /\ C19_Logs("fetch") => inflight' = inflight + 1

\* C19 as a formula.
C19_FetchFailureCaught == [][C19_FailedFetchStep]_vars

\* A fetch failed, a later trigger started another one, and the count it
\* brought is on display.
C19_Witness ==
    /\ \E k \in 1..Len(log) : \E j \in (k + 1)..Len(log) :
          /\ log[k].kind = "count-error"
          /\ log[j].kind = "fetch"
          /\ j < Len(log)
    /\ log[Len(log)].kind = "count"
    /\ updateQueue = <<>>
    /\ activeDriversCount = 2

\* What handleLocationSelect and clearRoute do to the route points and to the
\* search: start changes only under the mode "start" and end only under the
\* mode "end" (and then to the place selected), neither without a mode; the
\* mode is left null, the search box closed, the results empty; clearRoute
\* leaves both points null.
C20_HandlerStep ==
    /\ handleLocationSelect =>
          /\ routingMode # "start" => routePoints'.start = routePoints.start
          /\ routingMode # "end" => routePoints'.end = routePoints.end
          /\ routingMode = "start" =>
                \E k \in 1..Len(searchResults) : routePoints'.start = searchResults[k]
          /\ routingMode = "end" =>
                \E k \in 1..Len(searchResults) : routePoints'.end = searchResults[k]
          /\ routingMode' = noMode
          /\ showSearchBox' = FALSE
          /\ searchResults' = <<>>
    /\ clearRoute => (routePoints'.start = null /\ routePoints'.end = null)

\* C20 as stated: handleLocationSelect changes routePoints.start only when
\* routingMode is "start", routePoints.end only when it is "end", neither when
\* it is null, and always leaves routingMode null, the search box closed and
\* the results empty; clearRoute sets both points to null; the routing control
\* is rendered exactly when both start and end are non-null.
C20_ControlIffBothPoints ==
    /\ [][C20_HandlerStep]_vars
    /\ [](RoutingControlRendered <=>
             (routePoints.start # null /\ routePoints.end # null))

\* C20, amended: the same for the handlers; the routing control is rendered
\* exactly when the map is shown (isLoading is false) and both start and end
\* are non-null.
C20_ControlIffMapAndBothPoints ==
    /\ [][C20_HandlerStep]_vars
    /\ [](RoutingControlRendered <=>
             (~isLoading /\ routePoints.start # null /\ routePoints.end # null))
    /\ [](isLoading => ~RoutingControlRendered)

\* Both points were set by selecting results, the second one under the mode
\* "end", while the spinner is still shown: no routing control is rendered.
C20_Witness ==
    /\ isLoading
    /\ routePoints.start = Lahore
    /\ routePoints.end = Karachi
    /\ routingMode = noMode
    /\ ~showSearchBox
    /\ searchResults = <<>>
    /\ ~RoutingControlRendered

====
